---- MODULE Spec2Model ----
(***************************************************************************)
(* A directed, positively weighted graph (name -> node mapping, adjacency  *)
(* sets per node) and the lazy single-source shortest-path traversal over  *)
(* it, as implemented by the C++ iterator (graph.cpp) and by the Kotlin    *)
(* sequence (Graph.kt).                                                    *)
(***************************************************************************)
EXTENDS Integers, Sequences, FiniteSets, TLC

\* ------------------------------------------------------------------ bounds
MaxNodes == 3
MaxWeight == 3
MaxEdges == 3
MaxExtra == 2

\* The heavy edges of the dense ring weigh n + 1 .. n + MaxSlack.
MaxSlack == 2

\* ------------------------------------------------------- program constants
\* nullptr / null: the absent node or step reference (no name of a node).
Null == -2
\* The node GraphTest.BasicTest adds to its ring: create_node(-1).
ExtraNode == -1
\* HUGE_VAL / Double.POSITIVE_INFINITY: larger than every finite path length.
HUGE_VAL == 1000
\* The weight that is not a number (a double / Double can hold it): it
\* compares false with every number, whichever way the comparison goes.
NaN == -999

Names == 0 .. (MaxNodes - 1)
\* Weights offered to create_link / insertEdge: -1 and 0 are the rejected ones.
Weights == (-1) .. MaxWeight
\* The weights a caller can pass: the parameter is a double / Double.
FloatWeights == Weights \cup {NaN}

\* a <= b and a > b on doubles.
FloatLE(a, b) == a # NaN /\ b # NaN /\ a <= b

FloatGT(a, b) == a # NaN /\ b # NaN /\ a > b

VARIABLES
    lang,          \* "cpp" | "kt": the implementation this behaviour runs
    nodes,         \* graph::nodes / Graph.nodes: the names that have a node
    order,         \* Kotlin: insertion order of Graph.nodes (a LinkedHashMap); <<>> in C++
    out_edges,     \* graph_node::out_edges of every node of the mapping
    in_edges,      \* graph_node::in_edges of every node of the mapping
    err,           \* what the last call threw (NoError when it returned)
    pc,            \* "build" | "traversal" | "iterating" | "sequence" | "suspended" | "done"
    start,         \* dijkstra_traversal::start / shortestPath's start
    working_set,   \* keys of the working set, in its iteration order
    steps,         \* the dijkstra_iteration_step / PathEntry object of every node
    current_node,  \* dijkstra_traversal_iterator::current_node / nextEntry
    yielded,       \* the steps handed to the consumer so far, as they were when handed out
    increments,    \* minimum-selection rounds executed so far
    relaxes,       \* relaxation rounds executed so far
    pulls,         \* steps requested so far (begin(), ++, next())
    teardown,      \* Graph::~Graph (Graph.h): where the destructor is, Idle before it runs
    heap,          \* the shared_ptr the caller holds: to the graph (g), to steps (held)
    second         \* a second iterator of the same traversal / Sequence, NoSecond before it is made

graph == <<nodes, order, out_edges, in_edges>>
traversal == <<start, working_set, steps, current_node, yielded, increments, relaxes, pulls>>
\* The destructor has not run.
Idle == [pc |-> "idle", todo |-> {}, node |-> Null, rest |-> {},
         fault |-> FALSE, edges0 |-> {}]

\* The caller holds the shared_ptr it built the graph through, and no step.
Caller == [g |-> TRUE, held |-> {}]

\* No second iterator has been asked for.
NoSecond ==
    [pc |-> "none",
     it |-> [working_set |-> <<>>, steps |-> <<>>, current_node |-> Null,
             yielded |-> <<>>, increments |-> 0, relaxes |-> 0],
     pulls |-> 0]

AsideInit == teardown = Idle /\ heap = Caller /\ second = NoSecond

\* What the calls on the graph and on one traversal leave alone.
aside == <<teardown, heap, second>>
vars == <<lang, nodes, order, out_edges, in_edges, err, pc, start, working_set, steps,
          current_node, yielded, increments, relaxes, pulls, teardown, heap, second>>

\* ----------------------------------------------------------------- helpers
AllEdges == UNION {out_edges[n] : n \in nodes}

\* The sequences that enumerate the finite set S once each: every order in
\* which an unordered container may hand out its elements.
Orders(S) ==
    {f \in [1 .. Cardinality(S) -> S] : \A x \in S : \E i \in 1 .. Cardinality(S) : f[i] = x}

InSeq(seq, k) == \E i \in 1 .. Len(seq) : seq[i] = k

RemoveKey(seq, k) == SelectSeq(seq, LAMBDA x : x # k)

NoError == [type |-> "none", what |-> ""]
Throw(t, w) == [type |-> t, what |-> w]

TheGraph == [nodes |-> nodes, order |-> order, out_edges |-> out_edges, in_edges |-> in_edges]

SameGraph(g, x) ==
    [nodes |-> g.nodes, order |-> g.order, out_edges |-> g.out_edges,
     in_edges |-> g.in_edges, err |-> x]

SetGraph(r) ==
    /\ err' = r.err
    /\ nodes' = r.nodes
    /\ order' = r.order
    /\ out_edges' = r.out_edges
    /\ in_edges' = r.in_edges

\* The insertion of a node that leaves every node with fresh, empty
\* collections.
PutNode_reset(f, name) == [n \in DOMAIN f \cup {name} |-> {}]

\* A fresh node under `name`: nodes[name] = make_shared<graph_node>(name).
PutNode(f, name) == [n \in DOMAIN f \cup {name} |-> IF n = name THEN {} ELSE f[n]]

\* ------------------------------------------------------------- graph (C++)
\* graph::create_node without its contains test: nodes[name] is assigned a
\* fresh node, which replaces the node already there.
graph_create_node_overwrite(g, name) ==
    [nodes |-> g.nodes \cup {name}, order |-> g.order,
     out_edges |-> PutNode(g.out_edges, name),
     in_edges |-> PutNode(g.in_edges, name),
     err |-> NoError]

\* graph::create_node: the state of the mapping after the call.
graph_create_node(g, name) ==
    IF name \in g.nodes
    THEN SameGraph(g, Throw("std::domain_error", "Node already exists"))
    ELSE [nodes |-> g.nodes \cup {name}, order |-> g.order,
          out_edges |-> PutNode(g.out_edges, name),
          in_edges |-> PutNode(g.in_edges, name),
          err |-> NoError]

\* The edge constructor without its test of the weight.
graph_edge_no_weight_test(g, s, e, weight) ==
    IF \E itr \in g.out_edges[s] : itr.end = e
    THEN Throw("std::domain_error", "Edge asready exists")
    ELSE NoError

\* The edge constructor without its scan of the start's out_edges.
graph_edge_no_duplicate_test(g, s, e, weight) ==
    IF FloatLE(weight, 0)
    THEN Throw("std::domain_error", "Weights must be positive")
    ELSE NoError

\* graph_edge::graph_edge: what the constructor throws (NoError: it returns).
graph_edge(g, s, e, weight) ==
    IF FloatLE(weight, 0)
    THEN Throw("std::domain_error", "Weights must be positive")
    ELSE IF \E itr \in g.out_edges[s] : itr.end = e
    THEN Throw("std::domain_error", "Edge asready exists")
    ELSE NoError

\* The insertion that forgets the end node's in_edges.
InsertEdge_out_only(g, edge) ==
    [nodes |-> g.nodes, order |-> g.order,
     out_edges |-> [g.out_edges EXCEPT ![edge.start] = @ \cup {edge}],
     in_edges |-> g.in_edges,
     err |-> NoError]

\* The two inserts that follow a successful edge construction.
InsertEdge(g, edge) ==
    [nodes |-> g.nodes, order |-> g.order,
     out_edges |-> [g.out_edges EXCEPT ![edge.start] = @ \cup {edge}],
     in_edges |-> [g.in_edges EXCEPT ![edge.end] = @ \cup {edge}],
     err |-> NoError]

\* create_link that tests only that the start is a node: with an absent end
\* the edge is still put in the start's out_edges.
graph_create_link_start_only(g, s, e, weight) ==
    IF s \notin g.nodes
    THEN SameGraph(g, Throw("std::domain_error", "Node does not exist"))
    ELSE IF graph_edge(g, s, e, weight) # NoError
    THEN SameGraph(g, graph_edge(g, s, e, weight))
    ELSE [nodes |-> g.nodes, order |-> g.order,
          out_edges |-> [g.out_edges EXCEPT ![s] = @ \cup
                            {[start |-> s, end |-> e, weight |-> weight]}],
          in_edges |-> [n \in DOMAIN g.in_edges |->
                          IF n = e THEN g.in_edges[n] \cup
                                        {[start |-> s, end |-> e, weight |-> weight]}
                          ELSE g.in_edges[n]],
          err |-> NoError]

\* graph::create_link: the state of the mapping after the call.
graph_create_link(g, s, e, weight) ==
    IF s \notin g.nodes \/ e \notin g.nodes
    THEN SameGraph(g, Throw("std::domain_error", "Node does not exist"))
    ELSE IF graph_edge(g, s, e, weight) # NoError
    THEN SameGraph(g, graph_edge(g, s, e, weight))
    ELSE InsertEdge(g, [start |-> s, end |-> e, weight |-> weight])

create_node(name) ==
    /\ lang = "cpp"
    /\ pc = "build"
    /\ SetGraph(graph_create_node(TheGraph, name))
    /\ UNCHANGED <<aside, lang, pc, traversal>>

create_link(s, e, weight) ==
    /\ lang = "cpp"
    /\ pc = "build"
    /\ LET r == graph_create_link(TheGraph, s, e, weight)
       IN  /\ r.err = NoError => Cardinality(AllEdges) < MaxEdges
           /\ SetGraph(r)
    /\ UNCHANGED <<aside, lang, pc, traversal>>

\* ---------------------------------------------------------- graph (Kotlin)
\* Graph.insertNode
Graph_insertNode(g, name) ==
    IF name \in g.nodes
    THEN SameGraph(g, Throw("GraphKeyError", "No duplicate keys allowed"))
    ELSE [nodes |-> g.nodes \cup {name}, order |-> Append(g.order, name),
          out_edges |-> PutNode(g.out_edges, name),
          in_edges |-> PutNode(g.in_edges, name),
          err |-> NoError]

\* GraphEdge's init block
GraphEdge(weight) ==
    IF FloatLE(weight, 0)
    THEN Throw("GraphEdgeError", "Edge weights must be positive values")
    ELSE NoError

\* Graph.insertEdge
Graph_insertEdge(g, s, e, weight) ==
    IF s \notin g.nodes \/ e \notin g.nodes
    THEN SameGraph(g, Throw("GraphKeyError", "Failed to find node"))
    ELSE IF \E other \in g.out_edges[s] : other.end = e
    THEN SameGraph(g, Throw("GraphEdgeError", "An edge already exists"))
    ELSE IF GraphEdge(weight) # NoError
    THEN SameGraph(g, GraphEdge(weight))
    ELSE InsertEdge(g, [start |-> s, end |-> e, weight |-> weight])

insertNode(name) ==
    /\ lang = "kt"
    /\ pc = "build"
    /\ SetGraph(Graph_insertNode(TheGraph, name))
    /\ UNCHANGED <<aside, lang, pc, traversal>>

insertEdge(s, e, weight) ==
    /\ lang = "kt"
    /\ pc = "build"
    /\ LET r == Graph_insertEdge(TheGraph, s, e, weight)
       IN  /\ r.err = NoError => Cardinality(AllEdges) < MaxEdges
           /\ SetGraph(r)
    /\ UNCHANGED <<aside, lang, pc, traversal>>

\* ------------------------------------------------------- traversal (C++)
\* dijkstra_iteration_step(node): distance HUGE_VAL, no previous.
dijkstra_iteration_step(node) ==
    [current |-> node, distance |-> HUGE_VAL, previous |-> Null]

\* The working set built without the test for the start: every distance 0.
InitialSteps_all_zero(g, s) ==
    [n \in g.nodes |-> [dijkstra_iteration_step(n) EXCEPT !.distance = 0]]

\* The working set a beginning iterator (C++) or shortestPath (Kotlin) builds:
\* one step per node of the graph, the start at distance 0. `scan` is the
\* order in which the working set will hand out its keys.
InitialSteps(g, s) ==
    [n \in g.nodes |->
        IF n = s THEN [dijkstra_iteration_step(n) EXCEPT !.distance = 0]
        ELSE dijkstra_iteration_step(n)]

NewIterator(scan, st) ==
    [working_set |-> scan, steps |-> st, current_node |-> Null,
     yielded |-> <<>>, increments |-> 0, relaxes |-> 0]

\* A step as the consumer sees it through the reference it was handed.
View(st, n) == [node |-> n, distance |-> st[n].distance, previous |-> st[n].previous]

\* The scan without its comparison: the first entry scanned is kept.
ScanMin_first(ws, st, i, cur) == ws[1]

\* The scan with <= for <: among entries equally close the last one scanned
\* is kept.
RECURSIVE ScanMin_ties_last(_, _, _, _)
ScanMin_ties_last(ws, st, i, cur) ==
    IF i > Len(ws) THEN cur
    ELSE LET c1 == IF cur = Null THEN ws[i] ELSE cur
             c2 == IF st[ws[i]].distance <= st[c1].distance THEN ws[i] ELSE c1
         IN  ScanMin_ties_last(ws, st, i + 1, c2)

\* iter(), the scan for the closest entry: the first entry is taken, a later
\* one replaces it only when strictly closer.
RECURSIVE ScanMin(_, _, _, _)
ScanMin(ws, st, i, cur) ==
    IF i > Len(ws) THEN cur
    ELSE LET c1 == IF cur = Null THEN ws[i] ELSE cur
             c2 == IF st[ws[i]].distance < st[c1].distance THEN ws[i] ELSE c1
         IN  ScanMin(ws, st, i + 1, c2)

\* The relaxation with the candidate taken to be the edge's weight alone.
RelaxEdge_weight_only(ws, st, cur, edge) ==
    LET end == edge.end
        distance == edge.weight
    IN  IF InSeq(ws, end) /\ distance < st[end].distance
        THEN [st EXCEPT ![end].distance = distance, ![end].previous = cur]
        ELSE st

\* The relaxation that records the predecessor only for an entry that has
\* none yet: an improved entry keeps its first predecessor.
RelaxEdge_first_previous(ws, st, cur, edge) ==
    LET end == edge.end
        distance == st[cur].distance + edge.weight
    IN  IF InSeq(ws, end) /\ distance < st[end].distance
        THEN [st EXCEPT ![end].distance = distance,
                        ![end].previous = IF @ = Null THEN cur ELSE @]
        ELSE st

\* The relaxation without the contains test and with the predecessor
\* assigned outside the distance test: it writes to the step of every end.
RelaxEdge_unguarded(ws, st, cur, edge) ==
    LET end == edge.end
        distance == st[cur].distance + edge.weight
        st1 == IF distance < st[end].distance
               THEN [st EXCEPT ![end].distance = distance]
               ELSE st
    IN  [st1 EXCEPT ![end].previous = cur]

\* The relaxation with <= for <: a candidate equal to the entry's distance
\* replaces its predecessor.
RelaxEdge_or_equal(ws, st, cur, edge) ==
    LET end == edge.end
        distance == st[cur].distance + edge.weight
    IN  IF InSeq(ws, end) /\ distance <= st[end].distance
        THEN [st EXCEPT ![end].distance = distance, ![end].previous = cur]
        ELSE st

\* iter(), one out-edge of the selected node `cur`.
RelaxEdge(ws, st, cur, edge) ==
    LET end == edge.end
        distance == st[cur].distance + edge.weight
    IN  IF InSeq(ws, end) /\ distance < st[end].distance
        THEN [st EXCEPT ![end].distance = distance, ![end].previous = cur]
        ELSE st

\* iter(), the loop over the selected node's out-edges, in the order `eo`.
RECURSIVE Relax(_, _, _, _, _)
Relax(ws, st, cur, eo, i) ==
    IF i > Len(eo) THEN st
    ELSE Relax(ws, RelaxEdge(ws, st, cur, eo[i]), cur, eo, i + 1)

\* The node the next iter() selects (Null on an empty working set).
Selected(it) ==
    IF Len(it.working_set) = 0 THEN Null
    ELSE ScanMin(it.working_set, it.steps, 1, Null)

\* iter() without the test for HUGE_VAL: the closest entry is the next step
\* whatever its distance.
iter_no_infinity_test(it, eo) ==
    IF Len(it.working_set) = 0
    THEN [it EXCEPT !.current_node = Null]
    ELSE LET cur == ScanMin(it.working_set, it.steps, 1, Null)
             ws1 == RemoveKey(it.working_set, cur)
             st1 == IF it.steps[cur].distance = HUGE_VAL THEN it.steps
                    ELSE Relax(ws1, it.steps, cur, eo, 1)
         IN  [working_set |-> ws1, steps |-> st1, current_node |-> cur,
              yielded |-> Append(it.yielded, View(st1, cur)),
              increments |-> it.increments + 1,
              relaxes |-> it.relaxes + 1]

\* iter() that computes one step ahead: after the round that produces the
\* step it runs the round of the step after it.
iter_ahead(it, eo) ==
    LET round(x, o) ==
            IF Len(x.working_set) = 0
            THEN [x EXCEPT !.current_node = Null]
            ELSE LET cur == ScanMin(x.working_set, x.steps, 1, Null)
                     ws1 == RemoveKey(x.working_set, cur)
                 IN  IF x.steps[cur].distance = HUGE_VAL
                     THEN [x EXCEPT !.working_set = ws1, !.current_node = Null,
                                    !.increments = @ + 1]
                     ELSE LET st1 == Relax(ws1, x.steps, cur, o, 1)
                          IN  [working_set |-> ws1, steps |-> st1, current_node |-> cur,
                               yielded |-> Append(x.yielded, View(st1, cur)),
                               increments |-> x.increments + 1,
                               relaxes |-> x.relaxes + 1]
        one == round(it, eo)
        nxt == Selected(one)
    IN  IF one.current_node = Null \/ nxt = Null THEN one
        ELSE round(one, CHOOSE o \in Orders(out_edges[nxt]) : TRUE)

\* iter() without working_set.erase: the selected entry stays in the set.
iter_no_erase(it, eo) ==
    IF Len(it.working_set) = 0
    THEN [it EXCEPT !.current_node = Null]
    ELSE LET cur == ScanMin(it.working_set, it.steps, 1, Null)
         IN  IF it.steps[cur].distance = HUGE_VAL
             THEN [it EXCEPT !.current_node = Null, !.increments = @ + 1]
             ELSE LET st1 == Relax(it.working_set, it.steps, cur, eo, 1)
                  IN  [working_set |-> it.working_set, steps |-> st1,
                       current_node |-> cur,
                       yielded |-> Append(it.yielded, View(st1, cur)),
                       increments |-> it.increments + 1,
                       relaxes |-> it.relaxes + 1]

\* dijkstra_traversal_iterator::iter. `eo` is the order in which the selected
\* node's out_edges are handed out.
iter(it, eo) ==
    IF Len(it.working_set) = 0
    THEN [it EXCEPT !.current_node = Null]
    ELSE LET cur == ScanMin(it.working_set, it.steps, 1, Null)
             ws1 == RemoveKey(it.working_set, cur)
         IN  IF it.steps[cur].distance = HUGE_VAL
             THEN [it EXCEPT !.working_set = ws1, !.current_node = Null,
                             !.increments = @ + 1]
             ELSE LET st1 == Relax(ws1, it.steps, cur, eo, 1)
                  IN  [working_set |-> ws1, steps |-> st1, current_node |-> cur,
                       yielded |-> Append(it.yielded, View(st1, cur)),
                       increments |-> it.increments + 1,
                       relaxes |-> it.relaxes + 1]

\* The constructor without the test that the start is a node of the graph.
dijkstra_traversal_iterator_no_test(g, s, is_beginning, scan, eo) ==
    IF is_beginning
    THEN [err |-> NoError,
          it |-> iter(NewIterator(scan, InitialSteps(g, s)), eo)]
    ELSE [err |-> NoError, it |-> NewIterator(<<>>, <<>>)]

\* The constructor of dijkstra_traversal_iterator: [err, it].
dijkstra_traversal_iterator(g, s, is_beginning, scan, eo) ==
    IF is_beginning
    THEN IF s \notin g.nodes
         THEN [err |-> Throw("std::logic_error", "Unable to find the node"),
               it |-> NewIterator(<<>>, <<>>)]
         ELSE [err |-> NoError,
               it |-> iter(NewIterator(scan, InitialSteps(g, s)), eo)]
    ELSE [err |-> NoError, it |-> NewIterator(<<>>, <<>>)]

TheIterator ==
    [working_set |-> working_set, steps |-> steps, current_node |-> current_node,
     yielded |-> yielded, increments |-> increments, relaxes |-> relaxes]

SetIterator(it) ==
    /\ working_set' = it.working_set
    /\ steps' = it.steps
    /\ current_node' = it.current_node
    /\ yielded' = it.yielded
    /\ increments' = it.increments
    /\ relaxes' = it.relaxes

EdgeOrders(it) ==
    IF Selected(it) = Null THEN {<<>>} ELSE Orders(out_edges[Selected(it)])

\* dijkstra_traversal's constructor: keeps the graph and the start name.
dijkstra_traversal(s) ==
    /\ lang = "cpp"
    /\ pc = "build"
    /\ pc' = "traversal"
    /\ start' = s
    /\ err' = NoError
    /\ UNCHANGED <<aside, lang, graph, working_set, steps, current_node, yielded,
                   increments, relaxes, pulls>>

\* dijkstra_traversal::begin
begin ==
    /\ lang = "cpp"
    /\ pc = "traversal"
    /\ \E scan \in Orders(nodes) :
         \E eo \in (IF start \in nodes THEN Orders(out_edges[start]) ELSE {<<>>}) :
           LET r == dijkstra_traversal_iterator(TheGraph, start, TRUE, scan, eo)
           IN  /\ err' = r.err
               /\ IF r.err = NoError
                  THEN /\ SetIterator(r.it)
                       /\ pc' = "iterating"
                       /\ pulls' = pulls + 1
                  ELSE UNCHANGED <<pc, working_set, steps, current_node, yielded,
                                   increments, relaxes, pulls>>
    /\ UNCHANGED <<aside, lang, graph, start>>

\* dijkstra_traversal::end: the end marker is a second iterator object, never
\* advanced; the work its construction does is added to the counters.
end ==
    /\ lang = "cpp"
    /\ pc \in {"traversal", "iterating"}
    /\ LET r == dijkstra_traversal_iterator(TheGraph, start, FALSE, <<>>, <<>>)
       IN  /\ err' = r.err
           /\ increments' = increments + r.it.increments
           /\ relaxes' = relaxes + r.it.relaxes
    /\ UNCHANGED <<aside, lang, graph, pc, start, working_set, steps, current_node,
                   yielded, pulls>>

\* dijkstra_traversal_iterator::operator++
operator_inc ==
    /\ lang = "cpp"
    /\ pc = "iterating"
    /\ pulls < Cardinality(nodes) + MaxExtra
    /\ \E eo \in EdgeOrders(TheIterator) : SetIterator(iter(TheIterator, eo))
    /\ pulls' = pulls + 1
    /\ err' = NoError
    /\ UNCHANGED <<aside, lang, graph, pc, start>>

\* dijkstra_traversal_iterator::operator!= : is there still data left.
operator_ne == current_node # Null

\* ---------------------------------------------------- traversal (Kotlin)
\* shortestPath, the scan for the closest entry: an entry replaces the
\* choice so far when it is as close or closer.
RECURSIVE KtScanMin(_, _, _, _)
KtScanMin(ws, st, i, nextEntry) ==
    IF i > Len(ws) THEN nextEntry
    ELSE LET d == IF nextEntry = Null THEN HUGE_VAL ELSE st[nextEntry].distance
             n1 == IF st[ws[i]].distance <= d THEN ws[i] ELSE nextEntry
         IN  KtScanMin(ws, st, i + 1, n1)

\* shortestPath, one out-edge of the yielded node.
KtRelaxEdge(ws, st, cur, edge) ==
    LET distance == st[cur].distance + edge.weight
    IN  IF InSeq(ws, edge.end) /\ st[edge.end].distance > distance
        THEN [st EXCEPT ![edge.end].distance = distance, ![edge.end].previous = cur]
        ELSE st

RECURSIVE KtRelax(_, _, _, _, _)
KtRelax(ws, st, cur, eo, i) ==
    IF i > Len(eo) THEN st
    ELSE KtRelax(ws, KtRelaxEdge(ws, st, cur, eo[i]), cur, eo, i + 1)

\* The body of sequence { } with the relaxation before the yield, as the C++
\* iterator has it: nothing is left to do when it is resumed.
KtResume_eager(it, at, eo) ==
    IF Len(it.working_set) = 0
    THEN [it |-> [it EXCEPT !.current_node = Null], pc |-> "done"]
    ELSE LET nextEntry == KtScanMin(it.working_set, it.steps, 1, Null)
             ws1 == RemoveKey(it.working_set, nextEntry)
         IN  IF it.steps[nextEntry].distance = HUGE_VAL
             THEN [it |-> [it EXCEPT !.working_set = ws1, !.current_node = Null,
                                     !.increments = @ + 1],
                   pc |-> "done"]
             ELSE LET st1 == KtRelax(ws1, it.steps, nextEntry,
                                     CHOOSE o \in Orders(out_edges[nextEntry]) : TRUE, 1)
                  IN  [it |-> [it EXCEPT !.working_set = ws1,
                                         !.steps = st1,
                                         !.current_node = nextEntry,
                                         !.yielded = Append(@, View(st1, nextEntry)),
                                         !.increments = @ + 1,
                                         !.relaxes = @ + 1],
                        pc |-> "suspended"]

\* The body of sequence { } without workingSet.remove: the entry that is
\* yielded stays in the working set.
KtResume_no_remove(it, at, eo) ==
    LET it1 == IF at = "suspended"
               THEN [it EXCEPT !.steps = KtRelax(it.working_set, it.steps,
                                                 it.current_node, eo, 1),
                               !.relaxes = @ + 1]
               ELSE it
    IN  IF Len(it1.working_set) = 0
        THEN [it |-> [it1 EXCEPT !.current_node = Null], pc |-> "done"]
        ELSE LET nextEntry == KtScanMin(it1.working_set, it1.steps, 1, Null)
             IN  IF it1.steps[nextEntry].distance = HUGE_VAL
                 THEN [it |-> [it1 EXCEPT !.current_node = Null,
                                          !.increments = @ + 1],
                       pc |-> "done"]
                 ELSE [it |-> [it1 EXCEPT !.current_node = nextEntry,
                                          !.yielded = Append(@, View(it1.steps, nextEntry)),
                                          !.increments = @ + 1],
                       pc |-> "suspended"]

\* The body of sequence { }, from where it is suspended (at its start, or at
\* yield with the relaxation of the yielded entry still to do) to its next
\* yield or its end: [it, pc].
KtResume(it, at, eo) ==
    LET it1 == IF at = "suspended"
               THEN [it EXCEPT !.steps = KtRelax(it.working_set, it.steps,
                                                 it.current_node, eo, 1),
                               !.relaxes = @ + 1]
               ELSE it
    IN  IF Len(it1.working_set) = 0
        THEN [it |-> [it1 EXCEPT !.current_node = Null], pc |-> "done"]
        ELSE LET nextEntry == KtScanMin(it1.working_set, it1.steps, 1, Null)
                 ws1 == RemoveKey(it1.working_set, nextEntry)
             IN  IF it1.steps[nextEntry].distance = HUGE_VAL
                 THEN [it |-> [it1 EXCEPT !.working_set = ws1, !.current_node = Null,
                                          !.increments = @ + 1],
                       pc |-> "done"]
                 ELSE [it |-> [it1 EXCEPT !.working_set = ws1,
                                          !.current_node = nextEntry,
                                          !.yielded = Append(@, View(it1.steps, nextEntry)),
                                          !.increments = @ + 1],
                       pc |-> "suspended"]

\* Graph.shortestPath up to `return sequence { ... }`: [err, it].
Graph_shortestPath(g, s) ==
    IF s \notin g.nodes
    THEN [err |-> Throw("GraphKeyError", "Need to specify a node in the graph"),
          it |-> NewIterator(<<>>, <<>>)]
    ELSE [err |-> NoError, it |-> NewIterator(g.order, InitialSteps(g, s))]

shortestPath(s) ==
    /\ lang = "kt"
    /\ pc = "build"
    /\ LET r == Graph_shortestPath(TheGraph, s)
       IN  /\ err' = r.err
           /\ IF r.err = NoError
              THEN /\ SetIterator(r.it)
                   /\ pc' = "sequence"
                   /\ start' = s
              ELSE UNCHANGED <<pc, start, working_set, steps, current_node,
                               yielded, increments, relaxes>>
    /\ UNCHANGED <<aside, lang, graph, pulls>>

\* One request of the consumer on the sequence's iterator (hasNext, and next
\* when there is one).
ktNext ==
    /\ lang = "kt"
    /\ pc \in {"sequence", "suspended"}
    /\ \E eo \in (IF pc = "suspended" THEN Orders(out_edges[current_node]) ELSE {<<>>}) :
         LET r == KtResume(TheIterator, pc, eo)
         IN  /\ SetIterator(r.it)
             /\ pc' = r.pc
    /\ pulls' = pulls + 1
    /\ err' = NoError
    /\ UNCHANGED <<aside, lang, graph, start>>

\* ----------------------------------------------------------- specification
Init ==
    /\ lang \in {"cpp", "kt"}
    /\ nodes = {}
    /\ order = <<>>
    /\ out_edges = <<>>
    /\ in_edges = <<>>
    /\ err = NoError
    /\ pc = "build"
    /\ start = Null
    /\ working_set = <<>>
    /\ steps = <<>>
    /\ current_node = Null
    /\ yielded = <<>>
    /\ increments = 0
    /\ relaxes = 0
    /\ pulls = 0
    /\ AsideInit

Next ==
    \/ \E name \in Names : create_node(name)
    \/ \E s \in Names, e \in Names, w \in Weights : create_link(s, e, w)
    \/ \E name \in Names : insertNode(name)
    \/ \E s \in Names, e \in Names, w \in Weights : insertEdge(s, e, w)
    \/ \E s \in Names : dijkstra_traversal(s)
    \/ begin
    \/ end
    \/ operator_inc
    \/ \E s \in Names : shortestPath(s)
    \/ ktNext

Spec == Init /\ [][Next]_vars

\* ------------------------------------------------- the ring of the tests
\* The ring of GraphTest.BasicTest / testGraph: i -> (i + 1) mod n, weight 1.
Ring(n) ==
    {[start |-> i, end |-> (i + 1) % n, weight |-> 1] : i \in 0 .. (n - 1)}

\* The ordered pairs the test joins afterwards: every (i, j) with
\* (i + 1) % n # j, the pairs (i, i) among them.
HeavyPairs(n) ==
    {p \in (0 .. (n - 1)) \X (0 .. (n - 1)) : (p[1] + 1) % n # p[2]}

\* The graph after the second round of create_link calls, the pair p joined
\* with weight heavy[p].
DenseRing(n, heavy) ==
    Ring(n) \cup
    {[start |-> p[1], end |-> p[2], weight |-> heavy[p]] : p \in HeavyPairs(n)}

\* The chain of the README's Kotlin test: x-1 -> x for x in 1 .. n-1, weight
\* 1; nothing of weight 1 leads back to 0.
Chain(n) ==
    {[start |-> i - 1, end |-> i, weight |-> 1] : i \in 1 .. (n - 1)}

\* The ordered pairs that test joins afterwards: every (x, y) with
\* x + 1 # y, the pairs (x, x) and (n-1, 0) among them.
ChainHeavyPairs(n) ==
    {p \in (0 .. (n - 1)) \X (0 .. (n - 1)) : p[1] + 1 # p[2]}

\* The graph of the README's test after its second round of insertEdge.
DenseChain(n, heavy) ==
    Chain(n) \cup
    {[start |-> p[1], end |-> p[2], weight |-> heavy[p]] : p \in ChainHeavyPairs(n)}

\* The edge GraphTest.BasicTest adds from its extra node:
\* create_link(-1, 0, 1.0).
ExtraLink == [start |-> ExtraNode, end |-> 0, weight |-> 1]

\* The state a test is in when it starts its second traversal.
\* C++: the nodes 0 .. n-1 created in any order, the ring and the heavy
\* edges; GraphTest.BasicTest (extra) has the node -1 and the edge -1 -> 0
\* as well, testGraph has not.
\* Kotlin (README): the nodes 0 .. n-1 inserted in this order, the chain and
\* the heavy edges.
InitDense ==
    /\ lang \in {"cpp", "kt"}
    /\ \E n \in 1 .. MaxNodes :
         \/ /\ lang = "cpp"
            /\ \E heavy \in [HeavyPairs(n) -> (n + 1) .. (n + MaxSlack)] :
                 \E extra \in BOOLEAN :
                   LET N == (0 .. (n - 1)) \cup (IF extra THEN {ExtraNode} ELSE {})
                       E == DenseRing(n, heavy) \cup (IF extra THEN {ExtraLink} ELSE {})
                   IN  /\ nodes = N
                       /\ order = <<>>
                       /\ out_edges = [i \in N |-> {e \in E : e.start = i}]
                       /\ in_edges = [i \in N |-> {e \in E : e.end = i}]
         \/ /\ lang = "kt"
            /\ \E heavy \in [ChainHeavyPairs(n) -> (n + 1) .. (n + MaxSlack)] :
                 LET N == 0 .. (n - 1)
                     E == DenseChain(n, heavy)
                 IN  /\ nodes = N
                     /\ order = [i \in 1 .. n |-> i - 1]
                     /\ out_edges = [i \in N |-> {e \in E : e.start = i}]
                     /\ in_edges = [i \in N |-> {e \in E : e.end = i}]
    /\ err = NoError
    /\ pc = "build"
    /\ start = Null
    /\ working_set = <<>>
    /\ steps = <<>>
    /\ current_node = Null
    /\ yielded = <<>>
    /\ increments = 0
    /\ relaxes = 0
    /\ pulls = 0
    /\ AsideInit

\* The traversals of the dense ring: the graph is no longer changed.
NextDense ==
    \/ \E s \in Names : dijkstra_traversal(s)
    \/ begin
    \/ end
    \/ operator_inc
    \/ \E s \in Names : shortestPath(s)
    \/ ktNext

SpecDense == InitDense /\ [][NextDense]_vars

\* --------------------------------------------- the graph under any weight
\* The calls that build the graph, the weight any double.
NextFloat ==
    \/ \E name \in Names : create_node(name)
    \/ \E s \in Names, e \in Names, w \in FloatWeights : create_link(s, e, w)
    \/ \E name \in Names : insertNode(name)
    \/ \E s \in Names, e \in Names, w \in FloatWeights : insertEdge(s, e, w)

SpecFloat == Init /\ [][NextFloat]_vars

\* ------------------------------------------- the calls that can fail
\* The calls on the graph and the requests for a traversal, without the
\* iteration that follows a request.
NextCalls ==
    \/ \E name \in Names : create_node(name)
    \/ \E s \in Names, e \in Names, w \in Weights : create_link(s, e, w)
    \/ \E name \in Names : insertNode(name)
    \/ \E s \in Names, e \in Names, w \in Weights : insertEdge(s, e, w)
    \/ \E s \in Names : dijkstra_traversal(s)
    \/ begin
    \/ \E s \in Names : shortestPath(s)

SpecCalls == Init /\ [][NextCalls]_vars

\* ------------------------------------------------ teardown (Graph.h ~Graph)
\* The graphs a Graph can hold when it is destroyed: nodes S, at most
\* MaxEdges edges, no two with the same start and end.
EdgeSetsOn(S) ==
    {E \in SUBSET {[start |-> a, end |-> b, weight |-> 1] : a \in S, b \in S} :
        Cardinality(E) <= MaxEdges}

\* The collection the first inner loop erases from:
\* other = itr->end; other->in_edges.erase(itr), with a loop that erases from
\* the start's out_edges defined before it.
EraseOfOutLoop_from_start(itr) == [node |-> itr.start, side |-> "out"]

EraseOfOutLoop(itr) == [node |-> itr.end, side |-> "in"]

\* The collection the second inner loop erases from:
\* other = itr->start; other->out_edges.erase(itr).
EraseOfInLoop(itr) == [node |-> itr.start, side |-> "out"]

\* unordered_set::erase(itr) on the collection `target`.
EraseOut(target, itr) ==
    IF target.side = "out"
    THEN [out_edges EXCEPT ![target.node] = @ \ {itr}]
    ELSE out_edges

EraseIn(target, itr) ==
    IF target.side = "in"
    THEN [in_edges EXCEPT ![target.node] = @ \ {itr}]
    ELSE in_edges

\* The erase takes an element out of the collection the running range-for
\* is iterating over.
ErasesIterated(target, iterated, itr) ==
    /\ target = iterated
    /\ itr \in (IF iterated.side = "out" THEN out_edges[iterated.node]
                ELSE in_edges[iterated.node])

\* A graph that has been built, no traversal of it made yet.
InitBuilt ==
    /\ lang = "cpp"
    /\ \E S \in SUBSET Names : \E E \in EdgeSetsOn(S) :
         /\ nodes = S
         /\ out_edges = [n \in S |-> {e \in E : e.start = n}]
         /\ in_edges = [n \in S |-> {e \in E : e.end = n}]
    /\ order = <<>>
    /\ err = NoError
    /\ pc = "build"
    /\ start = Null
    /\ working_set = <<>>
    /\ steps = <<>>
    /\ current_node = Null
    /\ yielded = <<>>
    /\ increments = 0
    /\ relaxes = 0
    /\ pulls = 0
    /\ AsideInit

\* ~Graph is entered: the loop over `nodes` is about to start.
destroy_Graph ==
    /\ lang = "cpp" /\ pc = "build"
    /\ teardown.pc = "idle"
    /\ teardown' = [pc |-> "nodes", todo |-> nodes, node |-> Null, rest |-> {},
                    fault |-> FALSE, edges0 |-> AllEdges]
    /\ UNCHANGED <<lang, graph, err, pc, traversal, heap, second>>

\* for (auto nodePair : nodes): the next node of the map, in the map's order,
\* or the end of the loop.
next_nodePair ==
    /\ teardown.pc = "nodes"
    /\ IF teardown.todo = {}
       THEN teardown' = [teardown EXCEPT !.pc = "done", !.node = Null]
       ELSE \E n \in teardown.todo :
              teardown' = [teardown EXCEPT !.pc = "out", !.node = n,
                                           !.todo = @ \ {n},
                                           !.rest = out_edges[n]]
    /\ UNCHANGED <<lang, graph, err, pc, traversal, heap, second>>

\* One round of an inner loop over `rest`, erasing itr from `target` while
\* `iterated` is being iterated; after an erase from the iterated collection
\* the loop may visit any of what is left, or stop.
InnerLoop(itr, target, iterated) ==
    /\ out_edges' = EraseOut(target, itr)
    /\ in_edges' = EraseIn(target, itr)
    /\ IF ErasesIterated(target, iterated, itr)
       THEN \E r \in SUBSET (teardown.rest \ {itr}) :
              teardown' = [teardown EXCEPT !.rest = r, !.fault = TRUE]
       ELSE teardown' = [teardown EXCEPT !.rest = @ \ {itr}]

\* for (auto itr : node->out_edges) { other = itr->end; other->in_edges.erase(itr); }
erase_from_end ==
    /\ teardown.pc = "out"
    /\ IF teardown.rest = {}
       THEN /\ teardown' = [teardown EXCEPT !.pc = "in",
                                            !.rest = in_edges[teardown.node]]
            /\ UNCHANGED <<out_edges, in_edges>>
       ELSE \E itr \in teardown.rest :
              InnerLoop(itr, EraseOfOutLoop(itr),
                        [node |-> teardown.node, side |-> "out"])
    /\ UNCHANGED <<lang, nodes, order, err, pc, traversal, heap, second>>

\* for (auto itr : node->in_edges) { other = itr->start; other->out_edges.erase(itr); }
erase_from_start ==
    /\ teardown.pc = "in"
    /\ IF teardown.rest = {}
       THEN /\ teardown' = [teardown EXCEPT !.pc = "clear"]
            /\ UNCHANGED <<out_edges, in_edges>>
       ELSE \E itr \in teardown.rest :
              InnerLoop(itr, EraseOfInLoop(itr),
                        [node |-> teardown.node, side |-> "in"])
    /\ UNCHANGED <<lang, nodes, order, err, pc, traversal, heap, second>>

\* node->in_edges.clear(); node->out_edges.clear();
clear_node ==
    /\ teardown.pc = "clear"
    /\ in_edges' = [in_edges EXCEPT ![teardown.node] = {}]
    /\ out_edges' = [out_edges EXCEPT ![teardown.node] = {}]
    /\ teardown' = [teardown EXCEPT !.pc = "nodes"]
    /\ UNCHANGED <<lang, nodes, order, err, pc, traversal, heap, second>>

NextTeardown ==
    \/ destroy_Graph
    \/ next_nodePair
    \/ erase_from_end
    \/ erase_from_start
    \/ clear_node

SpecTeardown == InitBuilt /\ [][NextTeardown]_vars

\* ------------------------------------- reference counts (graph.cpp, C++)
\* The objects made so far: the graph, a node per name, the edges, and a
\* dijkstra_iteration_step per node once begin() has run.
Created ==
    [graph |-> TRUE, nodes |-> nodes, edges |-> AllEdges, steps |-> DOMAIN steps]

\* The iterator exists: it holds working_graph, working_set and current_node.
IteratorLive == pc = "iterating"

\* A shared_ptr<graph> exists, were the traversal and its iterator to keep
\* none: the caller's only.
GraphHeld_caller_only == heap.g

\* A shared_ptr<graph> exists: the caller's, a dijkstra_traversal's
\* working_graph or an iterator's.
GraphHeld == heap.g \/ pc \in {"traversal", "iterating"}

\* A shared_ptr to the step of n exists: in the working set, as
\* current_node, or in the caller's hands.
StepHeld(n) ==
    \/ n \in heap.held
    \/ IteratorLive /\ (InSeq(working_set, n) \/ current_node = n)

\* The nodes an edge keeps alive, were start and end shared_ptr.
EdgeRefs_shared(e) == {e.start, e.end}

\* The nodes an edge keeps alive: start and end are weak_ptr.
EdgeRefs(e) == {}

\* The nodes a step keeps alive, were previous a weak_ptr.
StepRefs_current_only(n) == {n}

\* The nodes a step keeps alive: current and previous are shared_ptr.
StepRefs(n) == {n} \cup ({steps[n].previous} \ {Null})

\* The edges a node keeps alive, were in_edges not to own its edges.
NodeRefs_out_only(n) == out_edges[n]

\* The edges a node keeps alive: out_edges and in_edges hold shared_ptr.
NodeRefs(n) == out_edges[n] \cup in_edges[n]

\* One round of releases: what is left of `a` when every object no
\* shared_ptr of a surviving holder points to has been destroyed.
Release(a) ==
    LET g == a.graph /\ GraphHeld
        st == {n \in a.steps : StepHeld(n)}
        ns == {n \in a.nodes :
                 \/ g
                 \/ \E k \in st : n \in StepRefs(k)
                 \/ \E e \in a.edges : n \in EdgeRefs(e)}
        es == {e \in a.edges : \E n \in ns : e \in NodeRefs(n)}
    IN  [graph |-> g, nodes |-> ns, edges |-> es, steps |-> st]

\* The destructors run until no count reaches zero any more.
RECURSIVE Sweep(_)
Sweep(a) == IF Release(a) = a THEN a ELSE Sweep(Release(a))

\* The objects whose reference count is not zero.
Alive == Sweep(Created)

\* operator*: the caller keeps the shared_ptr it returns.
operator_deref ==
    /\ lang = "cpp"
    /\ pc = "iterating"
    /\ heap' = [heap EXCEPT !.held = IF current_node = Null THEN @
                                     ELSE @ \cup {current_node}]
    /\ UNCHANGED <<lang, graph, err, pc, traversal, teardown, second>>

\* The caller drops a step it kept.
release_step(n) ==
    /\ n \in heap.held
    /\ heap' = [heap EXCEPT !.held = @ \ {n}]
    /\ UNCHANGED <<lang, graph, err, pc, traversal, teardown, second>>

\* The caller drops its shared_ptr to the graph.
release_graph ==
    /\ lang = "cpp"
    /\ heap.g
    /\ pc # "build"
    /\ heap' = [heap EXCEPT !.g = FALSE]
    /\ UNCHANGED <<lang, graph, err, pc, traversal, teardown, second>>

\* The range-for is left: the dijkstra_traversal and its iterator go out of
\* scope.
leave_loop ==
    /\ lang = "cpp"
    /\ pc \in {"traversal", "iterating"}
    /\ pc' = "gone"
    /\ UNCHANGED <<lang, graph, err, traversal, aside>>

NextOwn ==
    \/ \E s \in Names : dijkstra_traversal(s)
    \/ begin
    \/ operator_inc
    \/ operator_deref
    \/ \E n \in Names : release_step(n)
    \/ release_graph
    \/ leave_loop

SpecOwn == InitBuilt /\ [][NextOwn]_vars

\* ------------------------------------------ a traversal that is pulled on
\* A graph that has been built, in either implementation and, in Kotlin,
\* with any insertion order of the nodes.
InitGraphs ==
    /\ lang \in {"cpp", "kt"}
    /\ \E S \in SUBSET Names : \E E \in EdgeSetsOn(S) : \E o \in Orders(S) :
         /\ nodes = S
         /\ order = IF lang = "kt" THEN o ELSE <<>>
         /\ out_edges = [n \in S |-> {e \in E : e.start = n}]
         /\ in_edges = [n \in S |-> {e \in E : e.end = n}]
    /\ err = NoError
    /\ pc = "build"
    /\ start = Null
    /\ working_set = <<>>
    /\ steps = <<>>
    /\ current_node = Null
    /\ yielded = <<>>
    /\ increments = 0
    /\ relaxes = 0
    /\ pulls = 0
    /\ AsideInit

\* The consumer keeps pulling: a for loop over the traversal (C++), a for
\* loop or count() over the sequence (Kotlin).
SpecPull ==
    /\ InitGraphs
    /\ [][NextDense]_vars
    /\ WF_vars(begin)
    /\ WF_vars(operator_inc)
    /\ WF_vars(ktNext)

\* ------------------------------------------ two iterators of one traversal
\* The working set that belongs to every iterator of the traversal alike.
Shared_always(lng) == TRUE

\* Where the working set of an iterator lives. In C++ it is a member of the
\* iterator object, built by the constructor that begin() calls: one for each
\* iterator. In Kotlin it is a local of shortestPath that the sequence block
\* captures: one for each call, the same for every iterator of the Sequence.
Shared(lng) == lng = "kt"

\* The second iterator with the working set it works on.
SecondIterator ==
    IF Shared(lang)
    THEN [second.it EXCEPT !.working_set = working_set, !.steps = steps]
    ELSE second.it

\* The second iterator after a step that left it as `it`, at `at`.
SetSecond(it, at) ==
    IF Shared(lang)
    THEN /\ working_set' = it.working_set
         /\ steps' = it.steps
         /\ second' = [pc |-> at,
                       it |-> [it EXCEPT !.working_set = <<>>, !.steps = <<>>],
                       pulls |-> second.pulls + 1]
    ELSE /\ second' = [pc |-> at, it |-> it, pulls |-> second.pulls + 1]
         /\ UNCHANGED <<working_set, steps>>

\* dijkstra_traversal::begin, called once more on the same traversal.
begin_second ==
    /\ lang = "cpp"
    /\ pc \in {"traversal", "iterating"}
    /\ second.pc = "none"
    /\ \E scan \in Orders(nodes) :
         \E eo \in (IF start \in nodes THEN Orders(out_edges[start]) ELSE {<<>>}) :
           LET r == dijkstra_traversal_iterator(TheGraph, start, TRUE, scan, eo)
           IN  /\ err' = r.err
               /\ IF r.err = NoError
                  THEN SetSecond(r.it, "iterating")
                  ELSE UNCHANGED <<second, working_set, steps>>
    /\ UNCHANGED <<lang, graph, pc, start, current_node, yielded, increments,
                   relaxes, pulls, teardown, heap>>

\* dijkstra_traversal_iterator::operator++ on the second iterator
operator_inc_second ==
    /\ lang = "cpp"
    /\ second.pc = "iterating"
    /\ second.pulls < Cardinality(nodes) + MaxExtra
    /\ \E eo \in EdgeOrders(SecondIterator) :
         SetSecond(iter(SecondIterator, eo), "iterating")
    /\ err' = NoError
    /\ UNCHANGED <<lang, graph, pc, start, current_node, yielded, increments,
                   relaxes, pulls, teardown, heap>>

\* Sequence.iterator(), called once more on the value shortestPath returned:
\* no line of the block runs before the first request.
iterator_second ==
    /\ lang = "kt"
    /\ pc \in {"sequence", "suspended", "done"}
    /\ second.pc = "none"
    /\ second' = [NoSecond EXCEPT !.pc = "sequence"]
    /\ UNCHANGED <<lang, graph, err, pc, traversal, teardown, heap>>

\* One request of the consumer on the second iterator of the sequence.
ktNext_second ==
    /\ lang = "kt"
    /\ second.pc \in {"sequence", "suspended"}
    /\ \E eo \in (IF second.pc = "suspended"
                  THEN Orders(out_edges[second.it.current_node]) ELSE {<<>>}) :
         LET r == KtResume(SecondIterator, second.pc, eo)
         IN  SetSecond(r.it, r.pc)
    /\ err' = NoError
    /\ UNCHANGED <<lang, graph, pc, start, current_node, yielded, increments,
                   relaxes, pulls, teardown, heap>>

NextTwo ==
    \/ \E s \in Names : dijkstra_traversal(s)
    \/ begin
    \/ operator_inc
    \/ begin_second
    \/ operator_inc_second
    \/ \E s \in Names : shortestPath(s)
    \/ ktNext
    \/ iterator_second
    \/ ktNext_second

SpecTwo == InitGraphs /\ [][NextTwo]_vars

\* ------------------------------------------------- reference definitions
\* What the graph itself says, independently of any traversal.
RECURSIVE ReachWithin(_, _)
ReachWithin(s, k) ==
    IF k = 0 THEN {s}
    ELSE LET r == ReachWithin(s, k - 1)
         IN  r \cup {e.end : e \in UNION {out_edges[n] : n \in r \cap nodes}}

\* The nodes reachable from s by directed edges, s included.
Reachable(s) == ReachWithin(s, Cardinality(nodes))

SetMin(S) == CHOOSE x \in S : \A y \in S : x <= y

\* The least total weight of a directed path of at most k edges from s to n
\* (HUGE_VAL when there is none).
RECURSIVE DistWithin(_, _, _)
DistWithin(s, n, k) ==
    IF k = 0 THEN (IF n = s THEN 0 ELSE HUGE_VAL)
    ELSE LET into == {e \in AllEdges : e.end = n /\ DistWithin(s, e.start, k - 1) # HUGE_VAL}
         IN  SetMin({DistWithin(s, n, k - 1)}
                    \cup {DistWithin(s, e.start, k - 1) + e.weight : e \in into})

TrueDistance(s, n) == DistWithin(s, n, Cardinality(nodes))

YieldedNodes == {yielded[i].node : i \in 1 .. Len(yielded)}

\* The traversal has ended: the C++ iterator compares equal to end(), the
\* Kotlin sequence has returned.
Terminal ==
    \/ lang = "cpp" /\ pc = "iterating" /\ ~operator_ne
    \/ lang = "kt" /\ pc = "done"

\* ------------------------------------------------------------------ claims

\* C1: the distances of the steps one traversal yields are non-decreasing:
\* each yielded step's distance is >= that of the step yielded just before.
C1_NonDecreasing ==
    \A i \in 1 .. Len(yielded) - 1 : yielded[i].distance <= yielded[i + 1].distance

C1_Witness ==
    /\ Len(yielded) = 3
    /\ yielded[2].distance < yielded[3].distance
    /\ yielded[2].previous = start
    /\ yielded[3].previous = start

\* C2: every yielded step's distance is the least total weight of a directed
\* path from the source to the step's node.
C2_ShortestDistance ==
    \A i \in 1 .. Len(yielded) :
        yielded[i].distance = TrueDistance(start, yielded[i].node)

C2_Witness ==
    /\ Len(yielded) = 3
    /\ \E e \in out_edges[start] :
         e.end = yielded[3].node /\ e.weight > yielded[3].distance

\* C3: the first step a traversal yields is the source, at distance 0 and
\* with no predecessor; an iterator that has begun has yielded it.
C3_FirstIsSource ==
    /\ Len(yielded) >= 1 =>
         yielded[1] = [node |-> start, distance |-> 0, previous |-> Null]
    /\ pc \in {"iterating", "suspended"} => Len(yielded) >= 1

C3_Witness ==
    /\ Len(yielded) >= 2
    /\ \E e \in in_edges[start] : e.start # start
    /\ \E e \in in_edges[start] : e.start = start

\* C4: a node not reachable from the source is never yielded, no node is
\* yielded twice, and a traversal that has ended has yielded every reachable
\* node: as many steps as there are nodes reachable from the source.
C4_ReachableExactly ==
    /\ YieldedNodes \subseteq Reachable(start)
    /\ Cardinality(YieldedNodes) = Len(yielded)
    /\ Terminal =>
         /\ YieldedNodes = Reachable(start)
         /\ Len(yielded) = Cardinality(Reachable(start))

C4_Witness ==
    /\ Terminal
    /\ Len(yielded) = 2
    /\ \E n \in nodes \ Reachable(start) :
         /\ in_edges[n] = {}
         /\ \E e \in out_edges[n] : e.end = start

\* C5: a yielded step with predecessor p comes after the step of p, over an
\* edge p -> node of the graph, at distance(p) + weight of that edge; only
\* the source's step has no predecessor.
C5_Predecessor ==
    \A i \in 1 .. Len(yielded) :
        LET step == yielded[i]
        IN  /\ (step.previous = Null) <=> (step.node = start)
            /\ step.previous # Null =>
                 \E j \in 1 .. i - 1 :
                     /\ yielded[j].node = step.previous
                     /\ \E e \in out_edges[step.previous] :
                            /\ e.end = step.node
                            /\ step.distance = yielded[j].distance + e.weight

C5_Witness ==
    /\ Len(yielded) = 3
    /\ yielded[3].previous = yielded[2].node
    /\ \E e \in out_edges[start] : e.end = yielded[3].node

\* C6 as claimed: an absent source makes the construction of the traversal
\* object fail, so that no traversal object with an absent source exists.
C6_FailsAtTraversalConstruction ==
    pc = "traversal" => start \in nodes

\* C6 as amended: an absent source fails before any step is produced and
\* never during iteration: in Kotlin at the shortestPath call, in C++ at
\* begin(), the construction of the iterator; neither the construction of
\* dijkstra_traversal nor end() fails.
C6_FailsBeforeAnyStep ==
    /\ err.what = "Unable to find the node" =>
         /\ err.type = "std::logic_error"
         /\ pc = "traversal" /\ start \notin nodes
         /\ yielded = <<>> /\ increments = 0 /\ pulls = 0
    /\ err.what = "Need to specify a node in the graph" =>
         /\ err.type = "GraphKeyError"
         /\ pc = "build" /\ yielded = <<>> /\ increments = 0 /\ pulls = 0
    /\ pc \in {"iterating", "sequence", "suspended", "done"} =>
         /\ start \in nodes
         /\ err = NoError

C6_Witness ==
    /\ err.what = "Unable to find the node"
    /\ nodes # {}
    /\ AllEdges # {}

\* The consumer holds a step: the one it asked for last.
HoldsStep == (pc = "iterating" /\ operator_ne) \/ pc = "suspended"

\* C7 as claimed: exactly one increment of the algorithm, that is one
\* minimum selection, one removal from the working set and one relaxation
\* round, runs per requested step: while the consumer holds its k-th step
\* exactly k selections and k relaxation rounds have run; constructing the
\* traversal object or the end marker runs none.
C7_OneIncrementPerStep ==
    /\ HoldsStep =>
         /\ pulls = Len(yielded)
         /\ increments = Len(yielded)
         /\ relaxes = Len(yielded)
    /\ pc \in {"build", "traversal", "sequence"} => increments = 0 /\ relaxes = 0

\* C7 as amended: exactly one minimum selection with its removal runs per
\* requested step: while the consumer holds its k-th step exactly k have
\* run, and never more than there were requests. The relaxation round of a
\* step runs in the same increment in C++, before the step is exposed (k
\* rounds), and in Kotlin only when the next step is requested (k-1 rounds
\* while the k-th step is held, k once the sequence has ended). Constructing
\* the traversal object or the end marker, or obtaining the sequence, runs
\* none.
C7_LazyIncrements ==
    /\ increments <= pulls
    /\ HoldsStep =>
         /\ pulls = Len(yielded)
         /\ increments = Len(yielded)
    /\ lang = "cpp" => relaxes = Len(yielded)
    /\ (lang = "kt" /\ pc = "suspended") => relaxes = Len(yielded) - 1
    /\ (lang = "kt" /\ pc = "done") => relaxes = Len(yielded)
    /\ pc \in {"build", "traversal", "sequence"} => increments = 0 /\ relaxes = 0

\* The consumer of a sequence holds its second step, which has an edge to
\* the entry left in the working set: that edge is not relaxed yet.
C7_Witness ==
    /\ lang = "kt"
    /\ pc = "suspended"
    /\ Len(yielded) = 2
    /\ relaxes = 1
    /\ Len(working_set) = 1
    /\ steps[working_set[1]].distance = HUGE_VAL
    /\ \E e \in out_edges[current_node] : e.end = working_set[1]

\* C8: once the C++ iterator is at its end (no current step), every later
\* advance leaves it there: no step, nothing yielded, no error.
C8_TerminalAbsorbing ==
    [][(lang = "cpp" /\ pc = "iterating" /\ ~operator_ne) =>
         /\ current_node' = Null
         /\ yielded' = yielded
         /\ pc' = "iterating"
         /\ err' = NoError]_vars

C8_Witness ==
    /\ lang = "cpp" /\ pc = "iterating" /\ ~operator_ne
    /\ pulls >= Len(yielded) + 3
    /\ Len(yielded) >= 1

\* C9: a step is immutable once yielded: the step object the consumer was
\* handed still has the distance and the predecessor it was yielded with.
C9_YieldedImmutable ==
    \A i \in 1 .. Len(yielded) : View(steps, yielded[i].node) = yielded[i]

C9_Witness ==
    /\ lang = "cpp"
    /\ Len(yielded) = 3
    /\ \E e \in out_edges[yielded[3].node] : e.end = yielded[1].node

\* C10: createNode with a name already present fails with DuplicateKey and
\* leaves the graph as it was: the node keeps its edges, and names stay unique.
C10_DuplicateKey ==
    [][\A name \in Names :
          (name \in nodes /\ (create_node(name) \/ insertNode(name))) =>
              /\ UNCHANGED graph
              /\ err' \in {Throw("std::domain_error", "Node already exists"),
                           Throw("GraphKeyError", "No duplicate keys allowed")}]_vars

C10_Witness ==
    /\ err.what \in {"Node already exists", "No duplicate keys allowed"}
    /\ Cardinality(nodes) >= 2
    /\ \A n \in nodes : out_edges[n] # {} /\ in_edges[n] # {}

\* ------------------------------------------------------ claims on the graph
\* The four causes of failure, as the two implementations report them.
DuplicateKey ==
    {Throw("std::domain_error", "Node already exists"),
     Throw("GraphKeyError", "No duplicate keys allowed")}

UnknownNode ==
    {Throw("std::domain_error", "Node does not exist"),
     Throw("GraphKeyError", "Failed to find node")}

InvalidWeight ==
    {Throw("std::domain_error", "Weights must be positive"),
     Throw("GraphEdgeError", "Edge weights must be positive values")}

DuplicateEdge ==
    {Throw("std::domain_error", "Edge asready exists"),
     Throw("GraphEdgeError", "An edge already exists")}

\* A step of createLink(s, e, w), in either implementation.
createLink(s, e, w) == create_link(s, e, w) \/ insertEdge(s, e, w)

\* A step of createNode(name), in either implementation.
createNode(name) == create_node(name) \/ insertNode(name)

HasEdge(s, e) == s \in nodes /\ \E x \in out_edges[s] : x.end = e

\* C11: createLink with an absent start or end fails with UnknownNode, and
\* then no node is created and no edge collection changes.
C11_UnknownNode ==
    [][\A s \in Names, e \in Names, w \in Weights :
          ((s \notin nodes \/ e \notin nodes) /\ createLink(s, e, w)) =>
              /\ err' \in UnknownNode
              /\ UNCHANGED graph]_vars

C11_Witness ==
    /\ pc = "build"
    /\ err \in UnknownNode
    /\ Cardinality(nodes) = 2
    /\ Cardinality(AllEdges) = 3

\* C12 as claimed: createLink between two existing nodes with weight <= 0
\* fails with InvalidWeight, and neither collection gains an edge.
C12_InvalidWeightAlways ==
    [][\A s \in Names, e \in Names, w \in Weights :
          (s \in nodes /\ e \in nodes /\ w <= 0 /\ createLink(s, e, w)) =>
              /\ err' \in InvalidWeight
              /\ UNCHANGED graph]_vars

\* C12 as amended: createLink between two existing nodes with weight <= 0
\* fails and neither collection gains an edge; the failure is InvalidWeight,
\* except in Kotlin when an edge start -> end exists already, where the
\* test for the duplicate comes first and the failure is DuplicateEdge.
C12_InvalidWeight ==
    [][\A s \in Names, e \in Names, w \in Weights :
          (s \in nodes /\ e \in nodes /\ w <= 0 /\ createLink(s, e, w)) =>
              /\ IF lang = "kt" /\ HasEdge(s, e)
                 THEN err' \in DuplicateEdge
                 ELSE err' \in InvalidWeight
              /\ UNCHANGED graph]_vars

C12_Witness ==
    /\ pc = "build"
    /\ err \in InvalidWeight
    /\ Cardinality(nodes) = MaxNodes
    /\ AllEdges # {}
    /\ Cardinality(AllEdges) < MaxEdges

\* C13 as claimed: createLink fails with DuplicateEdge when an edge
\* start -> end exists, whatever the new weight, and nothing changes.
C13_DuplicateEdgeAlways ==
    [][\A s \in Names, e \in Names, w \in Weights :
          (HasEdge(s, e) /\ createLink(s, e, w)) =>
              /\ err' \in DuplicateEdge
              /\ UNCHANGED graph]_vars

\* C13 as amended: when an edge start -> end exists (start = end included)
\* createLink fails and nothing changes, the existing edge keeps its weight;
\* the failure is DuplicateEdge whatever the new positive weight, and in C++
\* InvalidWeight when the new weight is <= 0, which is tested first. An edge
\* end -> start alone does not make the call fail.
C13_DuplicateEdge ==
    [][\A s \in Names, e \in Names, w \in Weights :
          /\ (HasEdge(s, e) /\ createLink(s, e, w)) =>
                /\ IF lang = "cpp" /\ w <= 0
                   THEN err' \in InvalidWeight
                   ELSE err' \in DuplicateEdge
                /\ UNCHANGED graph
          /\ (s \in nodes /\ e \in nodes /\ ~HasEdge(s, e) /\ HasEdge(e, s)
                /\ w > 0 /\ createLink(s, e, w)) =>
                err' = NoError]_vars

C13_Witness ==
    /\ pc = "build"
    /\ err \in DuplicateEdge
    /\ \E n \in nodes : HasEdge(n, n)
    /\ \E a \in nodes, b \in nodes : a # b /\ HasEdge(a, b) /\ HasEdge(b, a)

\* C14: a successful createLink adds exactly one edge, the same edge to the
\* start's outgoing and to the end's incoming collection, and changes nothing
\* else: the node set and every other collection stay as they were.
C14_LinkFrame ==
    [][\A s \in Names, e \in Names, w \in Weights :
          (err' = NoError /\ createLink(s, e, w)) =>
              LET edge == [start |-> s, end |-> e, weight |-> w]
              IN  /\ nodes' = nodes /\ order' = order
                  /\ edge \notin out_edges[s] /\ edge \notin in_edges[e]
                  /\ \A n \in nodes :
                       /\ out_edges'[n] =
                            IF n = s THEN out_edges[n] \cup {edge} ELSE out_edges[n]
                       /\ in_edges'[n] =
                            IF n = e THEN in_edges[n] \cup {edge} ELSE in_edges[n]
                  /\ DOMAIN out_edges' = nodes /\ DOMAIN in_edges' = nodes]_vars

C14_Witness ==
    /\ pc = "build"
    /\ err = NoError
    /\ Cardinality(AllEdges) = MaxEdges
    /\ \E n \in nodes : out_edges[n] = {} /\ in_edges[n] # {}
    /\ \E n \in nodes : Cardinality(out_edges[n]) >= 2

\* C15: a successful createNode inserts one node with empty outgoing and
\* incoming collections and changes nothing else: every node and every edge
\* there was is as before.
C15_NodeFrame ==
    [][\A name \in Names :
          (err' = NoError /\ createNode(name)) =>
              /\ name \notin nodes
              /\ nodes' = nodes \cup {name}
              /\ out_edges'[name] = {} /\ in_edges'[name] = {}
              /\ \A n \in nodes :
                   out_edges'[n] = out_edges[n] /\ in_edges'[n] = in_edges[n]
              /\ DOMAIN out_edges' = nodes' /\ DOMAIN in_edges' = nodes'
              /\ order' = IF lang = "kt" THEN Append(order, name) ELSE order]_vars

C15_Witness ==
    /\ pc = "build"
    /\ err = NoError
    /\ Cardinality(nodes) = MaxNodes
    /\ Cardinality(AllEdges) >= 2
    /\ \E n \in nodes : out_edges[n] = {} /\ in_edges[n] = {}

\* ----------------------------------------------------- claims on the ring
\* The i-th node of the ring as a traversal from 0 is to yield it.
RingStep(i) ==
    [node |-> i, distance |-> i, previous |-> IF i = 0 THEN Null ELSE i - 1]

\* What a traversal from 0 over n nodes has yielded so far is the start of
\* 0, 1, ..., n-1, and all of it once the traversal has ended.
RingTraversal(n) ==
    /\ Len(yielded) <= n
    /\ \A i \in 1 .. Len(yielded) : yielded[i] = RingStep(i - 1)
    /\ Terminal => Len(yielded) = n

\* C16: on the ring of n nodes 0..n-1 with edges i -> (i+1) mod n of weight
\* 1, whatever the order the nodes and the edges were inserted in, a
\* traversal from 0 yields exactly n steps: the nodes 0, 1, ..., n-1 in that
\* order, at distances 0, 1, ..., n-1, each i > 0 with predecessor i-1 and 0
\* with none.
C16_Ring ==
    \A n \in 1 .. MaxNodes :
        (nodes = 0 .. (n - 1) /\ AllEdges = Ring(n) /\ start = 0) =>
            RingTraversal(n)

C16_Witness ==
    /\ nodes = 0 .. (MaxNodes - 1)
    /\ AllEdges = Ring(MaxNodes)
    /\ start = 0
    /\ Terminal
    /\ Len(yielded) = MaxNodes

\* C17: on the ring extended with an edge of weight n+1 or more between
\* every ordered pair (i, j) with j # (i+1) mod n, the pairs (i, i) included,
\* a traversal from 0 yields the same sequence as on the ring alone: the
\* nodes 0, 1, ..., n-1 at distances 0, 1, ..., n-1 with predecessors i-1.
\* The graphs are those of the tests: with or without the extra node -1 and
\* its edge into 0, and, in the README's test, with the edge n-1 -> 0 one of
\* the heavy edges instead of one of weight 1.
C17_DenseRing ==
    \A n \in 1 .. MaxNodes :
        (/\ nodes \ {ExtraNode} = 0 .. (n - 1)
         /\ Chain(n) \subseteq AllEdges
         /\ \E e \in AllEdges :
              /\ e.start = n - 1 /\ e.end = 0
              /\ e.weight = 1 \/ e.weight >= n + 1
         /\ \A p \in HeavyPairs(n) :
              \E e \in AllEdges :
                e.start = p[1] /\ e.end = p[2] /\ e.weight >= n + 1
         /\ start = 0) =>
            RingTraversal(n)

\* The second traversal of GraphTest.BasicTest on three nodes has ended: the
\* ring, its six heavy edges and the edge from the extra node -1, which is
\* not yielded.
C17_Witness ==
    /\ nodes = (0 .. (MaxNodes - 1)) \cup {ExtraNode}
    /\ Ring(MaxNodes) \subseteq AllEdges
    /\ Cardinality(AllEdges) = MaxNodes * MaxNodes + 1
    /\ \E e \in AllEdges : e.weight = MaxNodes + 1
    /\ start = 0
    /\ Terminal
    /\ Len(yielded) = MaxNodes

\* C18 as claimed: a node other than the source with no outgoing edge and
\* exactly one incoming edge, from another node of the graph, is never
\* yielded.
C18_InboundOnlyNeverYielded ==
    \A x \in nodes :
        (/\ start \in nodes /\ x # start
         /\ out_edges[x] = {}
         /\ Cardinality(in_edges[x]) = 1
         /\ \A e \in in_edges[x] : e.start # x) =>
            x \notin YieldedNodes

\* C18 as amended: a node other than the source with no incoming edge and
\* exactly one outgoing edge, into the graph, is never yielded: the edge
\* leads away from it and nothing leads to it.
C18_OutboundOnlyNeverYielded ==
    \A x \in nodes :
        (/\ start \in nodes /\ x # start
         /\ in_edges[x] = {}
         /\ Cardinality(out_edges[x]) = 1) =>
            x \notin YieldedNodes

C18_Witness ==
    /\ Terminal
    /\ Len(yielded) = 2
    /\ \E x \in nodes \ {start} :
         /\ in_edges[x] = {}
         /\ Cardinality(out_edges[x]) = 1
         /\ \E e \in out_edges[x] : e.end = yielded[2].node

\* C19: in every state of the graph, after calls that failed as after calls
\* that succeeded, every edge has a weight > 0 and no two edges have the same
\* start and the same end.
C19_EdgeInvariant ==
    \A n \in nodes :
        /\ \A e \in out_edges[n] \cup in_edges[n] : FloatGT(e.weight, 0)
        /\ \A e1 \in out_edges[n], e2 \in out_edges[n] :
             e1.end = e2.end => e1 = e2
        /\ \A e1 \in in_edges[n], e2 \in in_edges[n] :
             e1.start = e2.start => e1 = e2

\* C20: in every state of the graph every edge in a node's outgoing or
\* incoming collection has its start and its end among the nodes, and an
\* edge is in its start's outgoing collection exactly when it is in its
\* end's incoming collection.
C20_EndpointInvariant ==
    /\ DOMAIN out_edges = nodes
    /\ DOMAIN in_edges = nodes
    /\ \A n \in nodes :
         /\ \A e \in out_edges[n] :
              /\ e.start = n
              /\ e.end \in nodes
              /\ e \in in_edges[e.end]
         /\ \A e \in in_edges[n] :
              /\ e.end = n
              /\ e.start \in nodes
              /\ e \in out_edges[e.start]

C20_Witness ==
    /\ pc = "build"
    /\ err \in UnknownNode
    /\ Cardinality(nodes) = 2
    /\ Cardinality(AllEdges) = 2
    /\ \E e \in AllEdges : e.start # e.end

\* ------------------------------------------------- claims on the lifetimes
\* No node holds an edge that the node at its other end does not hold.
NoHalfHeldEdge ==
    \A n \in nodes :
        /\ \A e \in out_edges[n] : e \in in_edges[e.end]
        /\ \A e \in in_edges[n] : e \in out_edges[e.start]

\* C21: the teardown of a graph, visiting the nodes in any order, never
\* erases an edge from the collection it is iterating over at that moment;
\* when a node has been dealt with no node holds an edge that the other
\* endpoint still holds or has lost; and at the end every node's out_edges
\* and in_edges are empty. Self-loops and edges in both directions included.
C21_Teardown ==
    /\ ~teardown.fault
    /\ teardown.pc \in {"nodes", "done"} => NoHalfHeldEdge
    /\ teardown.pc = "done" =>
         \A n \in nodes : out_edges[n] = {} /\ in_edges[n] = {}

C21_Witness ==
    /\ teardown.pc = "done"
    /\ \E e \in teardown.edges0 : e.start = e.end
    /\ \E e1 \in teardown.edges0, e2 \in teardown.edges0 :
         e1.start # e1.end /\ e2.start = e1.end /\ e2.end = e1.start

\* Nothing outside the graph holds a shared_ptr any more.
AllReleased == ~GraphHeld /\ heap.held = {}

\* C22: once the graph is destroyed and every step and iterator the caller
\* held is released, every node, every edge and every step is reclaimed,
\* whatever the graph: cycles and self-loops included.
C22_NoLeak ==
    AllReleased =>
        /\ ~Alive.graph
        /\ Alive.nodes = {} /\ Alive.edges = {} /\ Alive.steps = {}

C22_Witness ==
    /\ AllReleased
    /\ pc = "gone"
    /\ Len(yielded) >= 2
    /\ \E e \in AllEdges : e.start = e.end
    /\ \E e1 \in AllEdges, e2 \in AllEdges :
         e1.start # e1.end /\ e2.start = e1.end /\ e2.end = e1.start

\* C23 as claimed: an edge is owned by its start node alone: an edge whose
\* start node has been destroyed is destroyed too, the in_edges of its end
\* node not keeping it; and an edge keeps neither of its nodes alive: a node
\* that is alive is held by the graph or by a step.
C23_OwnedByStart ==
    /\ \A e \in Alive.edges : e.start \in Alive.nodes
    /\ \A n \in Alive.nodes :
         Alive.graph \/ \E k \in Alive.steps : n \in StepRefs(k)

\* C23 as amended: an edge is owned by the out_edges of its start node and
\* by the in_edges of its end node alike: it is alive exactly as long as one
\* of its two nodes is, so that in_edges can keep it after its start node is
\* destroyed; and an edge keeps neither of its nodes alive: a node that is
\* alive is held by the graph or by a step.
C23_OwnedByBothEnds ==
    /\ \A e \in AllEdges :
         e \in Alive.edges <=> (e.start \in Alive.nodes \/ e.end \in Alive.nodes)
    /\ \A n \in Alive.nodes :
         Alive.graph \/ \E k \in Alive.steps : n \in StepRefs(k)

C23_Witness ==
    /\ ~GraphHeld
    /\ \E e \in Alive.edges : e.start \notin Alive.nodes /\ e.end \in Alive.nodes
    /\ \E e \in AllEdges : e \notin Alive.edges

\* C24 as claimed: a node is never destroyed while a live edge has it as its
\* start or its end, also after the graph is destroyed with a step still
\* held.
C24_NoNodeDiesBeforeItsEdges ==
    \A e \in Alive.edges : e.start \in Alive.nodes /\ e.end \in Alive.nodes

\* C24 as amended: as long as the graph exists (the caller, a traversal or
\* an iterator holds it) no node and no edge is destroyed. Once the graph is
\* destroyed the nodes that stay are those a held step has as its current or
\* its previous node; every other node is destroyed, whether or not an edge
\* of a node that stays has it as start or end: the edge then refers to it
\* through an expired weak reference.
C24_NodeLifetime ==
    /\ GraphHeld => Alive.nodes = nodes /\ Alive.edges = AllEdges
    /\ ~GraphHeld =>
         Alive.nodes = {n \in nodes : \E k \in heap.held :
                                         n = k \/ n = steps[k].previous}

C24_Witness ==
    /\ ~GraphHeld
    /\ \E k \in heap.held : steps[k].previous # Null
    /\ \E e \in Alive.edges : e.start \in Alive.nodes /\ e.end \notin Alive.nodes

\* --------------------------------------------- claims on one increment
\* The smallest distance among the entries of the working set ws.
MinDistance(ws, st) ==
    CHOOSE d \in {st[ws[i]].distance : i \in 1 .. Len(ws)} :
        \A i \in 1 .. Len(ws) : d <= st[ws[i]].distance

\* The entries of ws at that distance, by their place in the scan order.
Closest(ws, st) ==
    {i \in 1 .. Len(ws) : st[ws[i]].distance = MinDistance(ws, st)}

FirstClosest(ws, st) ==
    ws[CHOOSE i \in Closest(ws, st) : \A j \in Closest(ws, st) : i <= j]

LastClosest(ws, st) ==
    ws[CHOOSE i \in Closest(ws, st) : \A j \in Closest(ws, st) : i >= j]

\* An increment on a working set that is not empty: operator++ in C++, a
\* request on the suspended sequence in Kotlin. The distances its scan reads
\* are those before the step in C++, where the relaxation follows the scan,
\* and those after it in Kotlin, where the relaxation of the step yielded
\* last comes first.
Increment ==
    /\ working_set # <<>>
    /\ \/ lang = "cpp" /\ pc = "iterating" /\ operator_inc
       \/ lang = "kt" /\ pc = "suspended" /\ ktNext

Scanned == IF lang = "cpp" THEN steps ELSE steps'

\* C25 as claimed: among the entries at the minimum distance the increment
\* takes the first in the scan order of the working set, in C++ and in
\* Kotlin.
C25_FirstOnTies ==
    [][Increment =>
         working_set' = RemoveKey(working_set, FirstClosest(working_set, Scanned))]_vars

\* C25 as amended: among the entries at the minimum distance the C++
\* iterator takes the first in the scan order of the working set (a later
\* entry replaces the choice only when strictly closer) and the Kotlin
\* sequence takes the last (a later entry replaces the choice when as close
\* or closer).
C25_TieBreak ==
    [][Increment =>
         working_set' = RemoveKey(working_set,
                                  IF lang = "cpp"
                                  THEN FirstClosest(working_set, Scanned)
                                  ELSE LastClosest(working_set, Scanned))]_vars

C25_Witness ==
    /\ Len(yielded) = 3
    /\ yielded[2].distance = yielded[3].distance
    /\ lang = "kt"
    /\ Len(working_set) = 0

\* The relaxation round for the selected node sel took the steps from
\* `before` to `after`, ws being the working set it ran on: the entry of n
\* changes exactly when n is in ws, sel has an edge to n, and sel's distance
\* plus that edge's weight is strictly less than n's distance; it then gets
\* that distance and sel as its predecessor.
RelaxRound(sel, before, after, ws) ==
    /\ DOMAIN after = DOMAIN before
    /\ \A n \in DOMAIN before :
         LET edges == {e \in out_edges[sel] : e.end = n}
             better == /\ InSeq(ws, n)
                       /\ \E e \in edges :
                            before[sel].distance + e.weight < before[n].distance
         IN  IF better
             THEN \E e \in edges :
                    after[n] = [before[n] EXCEPT
                                  !.distance = before[sel].distance + e.weight,
                                  !.previous = sel]
             ELSE after[n] = before[n]

\* C26: a relaxation round changes the entry of a node only if the node is
\* still in the working set, is the end of an outgoing edge of the selected
\* node, and the selected node's distance plus the edge's weight is strictly
\* less than the entry's distance; the entry then gets that distance and the
\* selected node as predecessor. Every other entry, an entry whose candidate
\* is equal, and the steps of nodes out of the working set stay as they are.
C26_RelaxFrame ==
    [][/\ (lang = "cpp" /\ pc = "traversal" /\ begin /\ pc' = "iterating") =>
            RelaxRound(start, InitialSteps(TheGraph, start), steps', working_set')
       /\ (lang = "cpp" /\ pc = "iterating" /\ operator_inc) =>
            IF current_node' = Null
            THEN steps' = steps
            ELSE RelaxRound(current_node', steps, steps', working_set')
       /\ (lang = "kt" /\ pc = "sequence" /\ ktNext) => steps' = steps
       /\ (lang = "kt" /\ pc = "suspended" /\ ktNext) =>
            RelaxRound(current_node, steps, steps', working_set)]_vars

C26_Witness ==
    /\ Len(yielded) = 3
    /\ yielded[3].previous = yielded[1].node
    /\ \E e \in out_edges[yielded[2].node] :
         /\ e.end = yielded[3].node
         /\ yielded[2].distance + e.weight = yielded[3].distance

\* A traversal has been obtained for a source of the graph.
Traversing ==
    \/ lang = "cpp" /\ pc = "iterating"
    \/ lang = "kt" /\ pc \in {"sequence", "suspended", "done"}

\* After p pulls on a traversal of n nodes, each of which took one entry out
\* of a working set that was not empty, n - p entries are left.
EntriesLeft(n, p) == IF p >= n THEN 0 ELSE n - p

\* C27, what holds all along: every increment on a working set that is not
\* empty takes exactly one entry out of it, the increment that finds only
\* entries at infinity too; at most |nodes| steps are yielded; and after
\* |nodes| + 1 increments the traversal is at its end.
C27_Bounds ==
    Traversing =>
        /\ Len(working_set) = EntriesLeft(Cardinality(nodes), pulls)
        /\ Len(yielded) <= Cardinality(nodes)
        /\ Len(yielded) <= pulls
        /\ pulls >= Cardinality(nodes) + 1 => Terminal

\* C27: on every graph a traversal that keeps being pulled on gets to its
\* end, within the bounds above.
C27_Terminates ==
    /\ []C27_Bounds
    /\ (Traversing ~> Terminal)

C27_Witness ==
    /\ Terminal
    /\ Cardinality(nodes) = MaxNodes
    /\ Len(yielded) = 2
    /\ pulls = MaxNodes + 1
    /\ Len(working_set) = 0

\* ------------------------------------------------ claims on the failures
\* A traversal was asked for from a name that is not a node.
UnknownSource ==
    {Throw("std::logic_error", "Unable to find the node"),
     Throw("GraphKeyError", "Need to specify a node in the graph")}

\* The cause a thrown error stands for, by its message.
Cause(e) ==
    IF e \in DuplicateKey THEN "DuplicateKey"
    ELSE IF e \in UnknownNode \cup UnknownSource THEN "UnknownNode"
    ELSE IF e \in InvalidWeight THEN "InvalidWeight"
    ELSE IF e \in DuplicateEdge THEN "DuplicateEdge"
    ELSE "none"

\* Why createLink(s, e, w) has to fail in this state ("none": it has not),
\* the weight and the existing edge taken in the order each implementation
\* tests them.
LinkCause(s, e, w) ==
    IF s \notin nodes \/ e \notin nodes THEN "UnknownNode"
    ELSE IF w <= 0 /\ HasEdge(s, e)
    THEN (IF lang = "cpp" THEN "InvalidWeight" ELSE "DuplicateEdge")
    ELSE IF w <= 0 THEN "InvalidWeight"
    ELSE IF HasEdge(s, e) THEN "DuplicateEdge"
    ELSE "none"

\* The exception class a cause is reported with: one class for all four in
\* C++, two classes in Kotlin.
KindOfCause(cause) ==
    IF lang = "cpp" THEN "std::domain_error"
    ELSE IF cause \in {"DuplicateKey", "UnknownNode"} THEN "GraphKeyError"
    ELSE "GraphEdgeError"

\* C28 as claimed: the four causes are four kinds of error, the kind alone
\* telling the cause: two errors of different causes are never of the same
\* kind (here: two failures in a row).
C28_KindTellsCause ==
    [][(err # NoError /\ err' # NoError /\ Cause(err) # Cause(err')) =>
          err.type # err'.type]_vars

\* C28 as amended: every failure is reported with a message of its own
\* cause, but the kinds do not tell the four causes apart. C++ throws
\* std::domain_error for DuplicateKey, UnknownNode (createLink), InvalidWeight
\* and DuplicateEdge alike, and std::logic_error, its base class, for a
\* traversal from an absent source. Kotlin throws GraphKeyError for
\* DuplicateKey and for UnknownNode (createLink and traversal) and
\* GraphEdgeError for InvalidWeight and DuplicateEdge.
C28_KindsAndMessages ==
    [][/\ \A name \in Names :
            (name \in nodes /\ createNode(name)) =>
                /\ Cause(err') = "DuplicateKey"
                /\ err'.type = KindOfCause("DuplicateKey")
       /\ \A s \in Names, e \in Names, w \in Weights :
            (pc = "build" /\ LinkCause(s, e, w) # "none") =>
                \/ /\ Cause(err') = LinkCause(s, e, w)
                   /\ err'.type = KindOfCause(LinkCause(s, e, w))
                \/ ~createLink(s, e, w)
       /\ (lang = "cpp" /\ pc = "traversal" /\ start \notin nodes /\ begin) =>
            /\ Cause(err') = "UnknownNode"
            /\ err'.type = "std::logic_error"
       /\ \A s \in Names :
            (s \notin nodes /\ shortestPath(s)) =>
                /\ Cause(err') = "UnknownNode"
                /\ err'.type = KindOfCause("UnknownNode")]_vars

C28_Witness ==
    /\ err = Throw("std::logic_error", "Unable to find the node")
    /\ AllEdges # {}
    /\ Cardinality(nodes) = 2
\* The iterator `it` advanced, on its own, until it is at the end.
RECURSIVE Drain(_)
Drain(it) ==
    IF it.current_node = Null THEN it
    ELSE Drain(iter(it, CHOOSE eo \in EdgeOrders(it) : TRUE))

\* What the one iterator of a traversal yields when nothing else runs, its
\* working set handing out its keys in the order `scan`.
Alone(scan) ==
    Drain(dijkstra_traversal_iterator(TheGraph, start, TRUE, scan,
              CHOOSE eo \in Orders(out_edges[start]) : TRUE).it).yielded

\* What an iterator has yielded and has still to yield is a complete
\* traversal of an iterator that runs alone.
RunsAsAlone(it) == \E scan \in Orders(nodes) : Drain(it).yielded = Alone(scan)

\* C29: each begin() on the same dijkstra_traversal builds a fresh working
\* set, so that two iterators obtained from it are independent: a step of one
\* leaves the other as it was, and under any interleaving of their advances
\* each one yields the complete sequence it would yield if it ran alone.
C29_Independent ==
    /\ [](lang = "cpp" =>
            /\ pc = "iterating" => RunsAsAlone(TheIterator)
            /\ second.pc = "iterating" => RunsAsAlone(second.it))
    /\ [][lang = "cpp" =>
            /\ second' # second =>
                 UNCHANGED <<working_set, steps, current_node, yielded>>
            /\ <<working_set, steps, current_node, yielded>>' #
                   <<working_set, steps, current_node, yielded>> =>
                 second' = second]_vars

\* Two iterators of one traversal, both advanced to the end of a traversal
\* of three nodes, which they have yielded in different orders.
C29_Witness ==
    /\ lang = "cpp"
    /\ pc = "iterating" /\ current_node = Null
    /\ second.pc = "iterating" /\ second.it.current_node = Null
    /\ Len(yielded) = 3
    /\ Len(second.it.yielded) = 3
    /\ yielded # second.it.yielded

\* The nodes the second iterator has yielded.
SecondYieldedNodes == {second.it.yielded[i].node : i \in 1 .. Len(second.it.yielded)}

\* C30: in Kotlin the working set is built once for each call of
\* shortestPath and shared by every iterator of the Sequence it returns.
\* Under any interleaving of two iterators no node is yielded by both, the
\* nodes they have yielded are no longer in the working set, which no request
\* on either iterator refills, and the second iterator does not start over
\* from the source: the source is yielded once, by the iterator that is
\* asked first.
C30_SharedWorkingSet ==
    /\ [](lang = "kt" =>
            /\ YieldedNodes \cap SecondYieldedNodes = {}
            /\ \A n \in YieldedNodes \cup SecondYieldedNodes :
                 ~InSeq(working_set, n)
            /\ (yielded # <<>> /\ second.it.yielded # <<>>) =>
                 (yielded[1].node = start) # (second.it.yielded[1].node = start))
    /\ [][(lang = "kt" /\ pc # "build") =>
            \A n \in nodes : InSeq(working_set', n) => InSeq(working_set, n)]_vars

\* Both iterators of one Sequence are at their end, each has yielded a node,
\* and the second one began with a node that is not the source.
C30_Witness ==
    /\ lang = "kt"
    /\ pc = "done"
    /\ second.pc = "done"
    /\ yielded # <<>>
    /\ second.it.yielded # <<>>
    /\ second.it.yielded[1].node # start

\* C31: within one traversal every node is yielded at most once, and at
\* every point the nodes already yielded are disjoint from the nodes still
\* in the working set.
C31_YieldedOnce ==
    /\ \A i \in 1 .. Len(yielded), j \in 1 .. Len(yielded) :
         yielded[i].node = yielded[j].node => i = j
    /\ \A i \in 1 .. Len(yielded) : ~InSeq(working_set, yielded[i].node)

\* Two nodes are yielded, a third is still in the working set, and the node
\* yielded last has an edge back to the source, yielded before it.
C31_Witness ==
    /\ Len(yielded) = 2
    /\ Len(working_set) = 1
    /\ \E e \in out_edges[yielded[2].node] : e.end = start /\ e.start # start

\* The sequence block resumed, on its own, until it returns.
RECURSIVE KtDrain(_, _)
KtDrain(it, at) ==
    IF at = "done" THEN it
    ELSE LET eo == IF at = "suspended"
                   THEN CHOOSE o \in Orders(out_edges[it.current_node]) : TRUE
                   ELSE <<>>
             r == KtResume(it, at, eo)
         IN  KtDrain(r.it, r.pc)

\* What a fully consumed traversal of this graph from this source yields
\* when its working set hands out its keys in the order `scan`.
RunOf(scan) ==
    IF lang = "cpp" THEN Alone(scan)
    ELSE KtDrain(NewIterator(scan, InitialSteps(TheGraph, start)), "sequence").yielded

\* The (node, distance) pairs of a sequence of steps.
Pairs(y) == {<<y[i].node, y[i].distance>> : i \in 1 .. Len(y)}

\* C32: the (node, distance) pairs a fully consumed traversal yields do not
\* depend on the scan order of the working set nor on the order in which
\* out-edges are relaxed: the run of this behaviour, whatever its orders,
\* yields the pairs of the run under every other scan order.
C32_OrderIndependent ==
    (pc \in {"iterating", "suspended", "done"} /\ start \in nodes) =>
        \A scan \in Orders(nodes) :
            /\ Pairs(yielded) \subseteq Pairs(RunOf(scan))
            /\ Terminal => Pairs(yielded) = Pairs(RunOf(scan))

\* A traversal of three nodes is fully consumed, and under another scan
\* order its steps come in another order.
C32_Witness ==
    /\ Terminal
    /\ Len(yielded) = 3
    /\ \E e \in AllEdges : e.weight > 1
    /\ \E scan \in Orders(nodes) : RunOf(scan) # yielded

\* C33: the assertion in iter() never fails. While a dijkstra_traversal or
\* an iterator of it exists (begin() runs iter() in the constructor), it
\* keeps the graph and so every node and edge alive, whatever the caller has
\* released: the weak reference to the end of each out-edge that iter()
\* relaxes can be locked to a live node.
C33_AssertHolds ==
    (lang = "cpp" /\ pc \in {"traversal", "iterating"}) =>
        /\ Alive.graph
        /\ nodes \subseteq Alive.nodes
        /\ \A n \in nodes : \A itr \in out_edges[n] :
             itr \in Alive.edges /\ itr.end \in Alive.nodes

\* The caller has released the graph and holds no step; the next iter()
\* will relax an edge whose end has been yielded and is neither kept by an
\* entry of the working set nor the node selected.
C33_Witness ==
    /\ lang = "cpp"
    /\ pc = "iterating"
    /\ ~heap.g
    /\ heap.held = {}
    /\ LET sel == Selected(TheIterator)
       IN  /\ sel # Null
           /\ steps[sel].distance # HUGE_VAL
           /\ \E itr \in out_edges[sel] :
                /\ itr.end # sel
                /\ \A k \in nodes : InSeq(working_set, k) => itr.end \notin StepRefs(k)

\* The out-edges of every node without the self-loops.
NoLoops(oe) == [n \in DOMAIN oe |-> {e \in oe[n] : e.end # n}]

\* An iterator advanced to its end over the out-edges `oe`.
RECURSIVE DrainOn(_, _)
DrainOn(oe, it) ==
    IF it.current_node = Null THEN it
    ELSE LET sel == Selected(it)
             eo == IF sel = Null THEN <<>> ELSE CHOOSE o \in Orders(oe[sel]) : TRUE
         IN  DrainOn(oe, iter(it, eo))

\* The sequence block resumed until it returns, over the out-edges `oe`.
RECURSIVE KtDrainOn(_, _, _)
KtDrainOn(oe, it, at) ==
    IF at = "done" THEN it
    ELSE LET eo == IF at = "suspended"
                   THEN CHOOSE o \in Orders(oe[it.current_node]) : TRUE
                   ELSE <<>>
             r == KtResume(it, at, eo)
         IN  KtDrainOn(oe, r.it, r.pc)

\* The steps of a fully consumed traversal from `start`, in the
\* implementation `lng`, over the nodes of the graph and the out-edges `oe`,
\* the working set scanned in the order `scan`.
RunIn(lng, oe, scan) ==
    LET fresh == NewIterator(scan, InitialSteps(TheGraph, start))
    IN  IF lng = "cpp"
        THEN DrainOn(oe, iter(fresh, CHOOSE o \in Orders(oe[start]) : TRUE)).yielded
        ELSE KtDrainOn(oe, fresh, "sequence").yielded

\* The same in the implementation this behaviour runs.
RunOn(oe, scan) == RunIn(lang, oe, scan)

IsPrefix(a, b) == Len(a) <= Len(b) /\ \A i \in 1 .. Len(a) : a[i] = b[i]

\* C34: a self-loop createLink(n, n, w) with w > 0 is accepted when no edge
\* n -> n exists yet, and self-loops never change a traversal: under every
\* scan order the steps from the source are the same with and without the
\* self-loop edges, and the steps this traversal yields are steps of a
\* traversal of the graph without them.
C34_SelfLoops ==
    /\ []((pc \in {"iterating", "suspended", "done"} /\ start \in nodes) =>
            /\ \A scan \in Orders(nodes) :
                 RunOn(out_edges, scan) = RunOn(NoLoops(out_edges), scan)
            /\ \E scan \in Orders(nodes) :
                 /\ IsPrefix(yielded, RunOn(NoLoops(out_edges), scan))
                 /\ Terminal => yielded = RunOn(NoLoops(out_edges), scan))
    /\ [][\A n \in nodes, w \in 1 .. MaxWeight :
            (~HasEdge(n, n) /\ createLink(n, n, w)) =>
                /\ err' = NoError
                /\ [start |-> n, end |-> n, weight |-> w] \in out_edges'[n]
                /\ [start |-> n, end |-> n, weight |-> w] \in in_edges'[n]]_vars

\* A traversal of three nodes is fully consumed, and the node yielded second
\* has a self-loop.
C34_Witness ==
    /\ Terminal
    /\ Len(yielded) = 3
    /\ HasEdge(yielded[2].node, yielded[2].node)

\* All nodes reachable from the source have distinct shortest distances.
DistinctDistances ==
    \A a \in Reachable(start), b \in Reachable(start) :
        a # b => TrueDistance(start, a) # TrueDistance(start, b)

\* C35: the C++ iterator, which relaxes the selected node's out-edges before
\* it exposes the step, and the Kotlin sequence, which relaxes them when the
\* next step is requested, yield the same sequence of (node, distance,
\* predecessor) whenever all reachable nodes have distinct shortest
\* distances: under every scan order both yield one and the same sequence,
\* and it is the one this traversal yields.
C35_SameSequence ==
    (pc \in {"iterating", "suspended", "done"} /\ start \in nodes /\ DistinctDistances) =>
        LET one == RunIn("cpp", out_edges, CHOOSE scan \in Orders(nodes) : TRUE)
        IN  /\ \A scan \in Orders(nodes) :
                 /\ RunIn("cpp", out_edges, scan) = one
                 /\ RunIn("kt", out_edges, scan) = one
            /\ IsPrefix(yielded, one)
            /\ Terminal => yielded = one

\* A traversal of three nodes at distinct distances is fully consumed; the
\* last node is reached at the same cost directly from the source and over
\* the second node, and the source is its predecessor.
C35_Witness ==
    /\ Terminal
    /\ Len(yielded) = 3
    /\ DistinctDistances
    /\ yielded[3].previous = start
    /\ \E e \in out_edges[yielded[2].node] :
         /\ e.end = yielded[3].node
         /\ yielded[2].distance + e.weight = yielded[3].distance

====
